---- MODULE Spec2Model ----
(***************************************************************************)
(* A model of xonsh/commands_cache.py: the CommandsCache mapping, its      *)
(* staleness fingerprint, the rebuild in the all_commands property, the    *)
(* lazy and validating lookups, and the background predictors.             *)
(*                                                                         *)
(* Strings are sequences of one-character strings, so that str.upper(),    *)
(* os.path.join and os.path.basename are computed and not looked up.       *)
(* A Python dict is a sequence of <<key, value>> rows in insertion order.  *)
(*                                                                         *)
(* The validating operations are modelled twice: as one step each (Spec,   *)
(* SpecLazy, SpecPredict, SpecFrame), and with all_commands taken apart    *)
(* into the steps between which the filesystem and a lazy reader can act   *)
(* (SpecSteps).  SpecNames and SpecShell exercise get_possible_names and   *)
(* predict_shell on their own.                                             *)
(***************************************************************************)
EXTENDS Integers, Sequences, FiniteSets, TLC

VARIABLES
    ON_WINDOWS,                  \* xonsh.platform.ON_WINDOWS, fixed per run
    PATH,                        \* builtins.__xonsh_env__['PATH']
    aliases,                     \* builtins.aliases (the alias names)
    files,                       \* executables present in each directory
    mtime,                       \* os.stat(dir).st_mtime of each directory
    cmds_cache,                  \* self._cmds_cache
    path_checksum,               \* self._path_checksum
    alias_checksum,              \* self._alias_checksum
    path_mtime,                  \* self._path_mtime
    backgroundable_predictors,   \* self.backgroundable_predictors
    ret,                         \* the call that has just returned and its value;
                                 \* no call once the environment has changed
    fresh,                       \* how the last validating call left the map, if
                                 \* the environment has not changed since:
                                 \* "rebuilt", "kept", else "no"
    touched,                     \* the directories whose content and mtime have
                                 \* changed since the last validating call
    frame,                       \* the activation of all_commands in progress:
                                 \* where it stands and its local variables
    built                        \* the fingerprint all_commands had computed
                                 \* when it built the current map

env == <<ON_WINDOWS, PATH, aliases, files, mtime>>
cache == <<cmds_cache, path_checksum, alias_checksum, path_mtime>>
vars == <<ON_WINDOWS, PATH, aliases, files, mtime, cmds_cache, path_checksum,
          alias_checksum, path_mtime, backgroundable_predictors, ret, fresh,
          touched, frame, built>>

----------------------------------------------------------------------------
(* Bounds *)

MaxMtime == 3        \* directory modification times range over 1..MaxMtime

----------------------------------------------------------------------------
(* Strings *)

None == <<"None">>

Lower == <<"a","b","c","d","e","f","g","h","i","j","k","l","m",
           "n","o","p","q","r","s","t","u","v","w","x","y","z">>
Capital == <<"A","B","C","D","E","F","G","H","I","J","K","L","M",
             "N","O","P","Q","R","S","T","U","V","W","X","Y","Z">>

UpperTable ==
    [c \in {Lower[i] : i \in DOMAIN Lower} |->
        Capital[CHOOSE i \in DOMAIN Lower : Lower[i] = c]]

UpperChar(c) == IF c \in DOMAIN UpperTable THEN UpperTable[c] ELSE c

\* str.upper()
RECURSIVE upper(_)
upper(s) == IF s = <<>> THEN <<>> ELSE <<UpperChar(Head(s))>> \o upper(Tail(s))

sep == "/"

\* index of the last separator of p, 0 when there is none
LastSep(p) ==
    IF \E i \in 1..Len(p) : p[i] = sep
    THEN CHOOSE i \in 1..Len(p) : p[i] = sep /\ \A j \in (i+1)..Len(p) : p[j] # sep
    ELSE 0

\* os.path.basename
basename(p) == SubSeq(p, LastSep(p) + 1, Len(p))

\* xonsh.platform.pathbasename, "a clone of os.path.basename"
pathbasename(p) == basename(p)

\* os.path.dirname
dirname(p) == IF LastSep(p) <= 1 THEN SubSeq(p, 1, LastSep(p))
              ELSE SubSeq(p, 1, LastSep(p) - 1)

\* os.path.join(path, cmd) for a directory path without a trailing separator
join(path, cmd) == path \o <<sep>> \o cmd

----------------------------------------------------------------------------
(* The names of the model's world *)

foo == <<"f","o","o">>
bash == <<"b","a","s","h">>
vi == <<"v","i">>
zz == <<"z","z">>
run == <<"r","u","n">>
exe == <<".","e","x","e">>

dA == <<"/","a">>
dB == <<"/","b">>
dN == <<"/","n">>        \* on the search path, but not an existing directory
cwd == <<"/","w">>       \* the current directory, never on the search path

\* builtins.__xonsh_env__['PATHEXT']
PATHEXT == << <<".","E","X","E">>, <<".","B","A","T">> >>

\* the file name of the executable with base name b on this platform
FileName(b) == IF ON_WINDOWS THEN b \o exe ELSE b

Dirs == {dA, dB, dN}

\* the directories that exist to begin with
ExistingDirs == {dA, dB}

\* the executables that come and go in a directory
DirFiles(d) == IF d \in {dA, dB} THEN {FileName(foo)} ELSE {}

\* the executables a directory holds throughout
StaticFiles(d) ==
    IF d = dA THEN {FileName(bash)}
    ELSE IF d = dB THEN {FileName(vi)}
    ELSE {}

\* the current directory holds one file
CwdFiles == {FileName(run)}

\* the alias that comes and goes; it has the name of an executable
AliasNames == {FileName(foo)}

\* the order in which a directory listing and a set iteration yield names
NameOrder == <<bash, bash \o exe, foo, foo \o exe, vi, vi \o exe>>

\* the values $PATH takes
Paths == {<<>>, <<dA, dB>>, <<dB, dA>>, <<dN, dB>>}

\* the names of S in listing order
Listing(S) == SelectSeq(NameOrder, LAMBDA n : n \in S)

----------------------------------------------------------------------------
(* Filesystem collaborators *)

\* os.path.isdir: the directories that exist are those that files lists
isdir(x) == x \in DOMAIN files

\* xonsh.tools.executables_in: the executable file names of a directory,
\* nothing for a path that is not a directory
executables_in(path) == IF isdir(path) THEN Listing(files[path]) ELSE <<>>

\* the content of any directory of the world
Content(d) == IF d = cwd THEN CwdFiles
              ELSE IF isdir(d) THEN files[d] ELSE {}

SameFileName(a, b) == IF ON_WINDOWS THEN upper(a) = upper(b) ELSE a = b

\* os.path.isfile: a bare name is looked up in the current directory
isfile(fn) ==
    IF LastSep(fn) = 0
    THEN \E f \in CwdFiles : SameFileName(f, fn)
    ELSE \E d \in ExistingDirs \cup {cwd} :
            /\ SameFileName(d, dirname(fn))
            /\ \E f \in Content(d) : SameFileName(f, basename(fn))

\* os.path.abspath
abspath(fn) == IF LastSep(fn) = 0 THEN join(cwd, fn) ELSE fn

----------------------------------------------------------------------------
(* dict *)

DictHas(d, k) == \E i \in 1..Len(d) : d[i][1] = k

DictGet(d, k, default) ==
    IF DictHas(d, k) THEN d[CHOOSE i \in 1..Len(d) : d[i][1] = k][2] ELSE default

\* d[k] = v: a new key goes last, an old key keeps its place
RECURSIVE DictSet(_, _, _)
DictSet(d, k, v) ==
    IF d = <<>> THEN << <<k, v>> >>
    ELSE IF Head(d)[1] = k THEN << <<k, v>> >> \o Tail(d)
    ELSE <<Head(d)>> \o DictSet(Tail(d), k, v)

\* iter(d)
RECURSIVE DictKeys(_)
DictKeys(d) == IF d = <<>> THEN <<>> ELSE <<Head(d)[1]>> \o DictKeys(Tail(d))

RECURSIVE Reverse(_)
Reverse(s) == IF s = <<>> THEN <<>> ELSE Append(Reverse(Tail(s)), Head(s))

----------------------------------------------------------------------------
(* CommandsCache.all_commands *)

\* builtin hash of a frozenset: equal sets hash equal, collisions are not
\* modelled; the value stored before the first check is None
hash(S) == S

\* frozenset(x for x in paths if os.path.isdir(x))
pathset == {PATH[i] : i \in {j \in DOMAIN PATH : isdir(PATH[j])}}

path_hash == hash(pathset)

al_hash == hash(aliases)

\* the loop over pathset that keeps the largest st_mtime, starting from 0
max_mtime ==
    IF pathset = {} THEN 0
    ELSE CHOOSE m \in {mtime[p] : p \in pathset} : \A p \in pathset : mtime[p] <= m

\* cache_valid with the modification times compared strictly
cache_valid_strict ==
    /\ path_hash = path_checksum
    /\ al_hash = alias_checksum
    /\ max_mtime < path_mtime

cache_valid ==
    /\ path_hash = path_checksum
    /\ al_hash = alias_checksum
    /\ max_mtime <= path_mtime

\* key = cmd.upper() if ON_WINDOWS else cmd
CacheKey(cmd) == IF ON_WINDOWS THEN upper(cmd) ELSE cmd

\* for cmd in executables_in(path): allcmds[key] = (join(path, cmd), cmd in alss)
RECURSIVE ScanDir(_, _, _)
ScanDir(allcmds, path, cmds) ==
    IF cmds = <<>> THEN allcmds
    ELSE ScanDir(DictSet(allcmds, CacheKey(Head(cmds)),
                         <<join(path, Head(cmds)), Head(cmds) \in aliases>>),
                 path, Tail(cmds))

\* for path in reversed(paths): ...
RECURSIVE ScanPaths(_, _)
ScanPaths(allcmds, rpaths) ==
    IF rpaths = <<>> THEN allcmds
    ELSE ScanPaths(ScanDir(allcmds, Head(rpaths), executables_in(Head(rpaths))),
                   Tail(rpaths))

\* only_alias without the alias flag
only_alias_unflagged == <<None, FALSE>>

only_alias == <<None, TRUE>>

\* AddAliases without the alias pass
AddAliases_none(allcmds, alss) == allcmds

\* for cmd in alss: if cmd not in allcmds: allcmds[key] = only_alias
RECURSIVE AddAliases(_, _)
AddAliases(allcmds, alss) ==
    IF alss = <<>> THEN allcmds
    ELSE AddAliases(IF ~DictHas(allcmds, Head(alss))
                    THEN DictSet(allcmds, CacheKey(Head(alss)), only_alias)
                    ELSE allcmds,
                    Tail(alss))

\* the map a rebuild produces from the current environment
Rebuild == AddAliases(ScanPaths(<<>>, Reverse(PATH)), Listing(aliases))

\* the value of the property: the map that is current after the check
all_commands == IF cache_valid THEN cmds_cache ELSE Rebuild

\* Validate when the stored modification time never decreases
Validate_max(m) ==
    /\ path_checksum' = path_hash
    /\ alias_checksum' = al_hash
    /\ path_mtime' = IF max_mtime > path_mtime THEN max_mtime ELSE path_mtime
    /\ cmds_cache' = m

\* the assignments all_commands makes to the cache's fields, m being the map
\* it returns
Validate(m) ==
    /\ path_checksum' = path_hash
    /\ alias_checksum' = al_hash
    /\ path_mtime' = max_mtime
    /\ cmds_cache' = m

----------------------------------------------------------------------------
(* Lazy operations *)

\* CommandsCache.get_possible_names
\* [name + ext for ext in exts]
RECURSIVE WithExts(_, _)
WithExts(name, exts) ==
    IF exts = <<>> THEN <<>>
    ELSE <<name \o Head(exts)>> \o WithExts(name, Tail(exts))

\* get_possible_names without name = name.upper()
get_possible_names_as_given(name) ==
    IF ON_WINDOWS
    THEN WithExts(name, << <<>> >> \o PATHEXT)
    ELSE <<name>>

get_possible_names(name) ==
    IF ON_WINDOWS
    THEN LET NAME == upper(name) IN WithExts(NAME, << <<>> >> \o PATHEXT)
    ELSE <<name>>

\* next((x for x in s if x in S), None)
RECURSIVE First(_, _)
First(s, S) ==
    IF s = <<>> THEN None
    ELSE IF Head(s) \in S THEN Head(s) ELSE First(Tail(s), S)

\* the elements of a list
Elems(s) == {s[i] : i \in 1..Len(s)}

\* The lazy operations read self._cmds_cache; m is that map at the time of
\* the call.

\* CommandsCache.cached_name
cached_name(m, name) ==
    IF name = None THEN None
    ELSE IF ON_WINDOWS
         THEN First(get_possible_names(pathbasename(name)), Elems(DictKeys(m)))
         ELSE pathbasename(name)

\* CommandsCache.lazyin
lazyin(m, key) == DictHas(m, cached_name(m, key))

\* CommandsCache.lazyiter, run to exhaustion
lazyiter(m) == DictKeys(m)

\* CommandsCache.lazylen
lazylen(m) == Len(m)

\* CommandsCache.lazyget
lazyget(m, key, default) == DictGet(m, cached_name(m, key), default)

\* CommandsCache.is_empty
is_empty(m) == Len(m) = 0

\* lazy_locate_binary without the test name != os.path.basename(name)
lazy_locate_binary_bare(m, name) ==
    LET possibilities == get_possible_names(name)
        local_bin == IF ON_WINDOWS
                     THEN First(possibilities,
                                {fn \in Elems(possibilities) : isfile(fn)})
                     ELSE None
        cached == First(possibilities, Elems(DictKeys(m)))
    IN  IF local_bin # None THEN abspath(local_bin)
        ELSE IF cached # None THEN DictGet(m, cached, None)[1]
        ELSE IF isfile(name) THEN name
        ELSE None

\* CommandsCache.lazy_locate_binary
lazy_locate_binary(m, name) ==
    LET possibilities == get_possible_names(name)
        local_bin == IF ON_WINDOWS
                     THEN First(possibilities,
                                {fn \in Elems(possibilities) : isfile(fn)})
                     ELSE None
        cached == First(possibilities, Elems(DictKeys(m)))
    IN  IF local_bin # None THEN abspath(local_bin)
        ELSE IF cached # None THEN DictGet(m, cached, None)[1]
        ELSE IF isfile(name) /\ name # basename(name) THEN name
        ELSE None

----------------------------------------------------------------------------
(* Background predictors *)

dash_c == <<"-","c">>
dash_x == <<"-","x">>
dash_h == <<"-","h">>
word == <<"w">>

predict_true(args) == TRUE

predict_false(args) == FALSE

\* a token argparse takes for an option string
IsFlag(tok) == Len(tok) > 0 /\ tok[1] = "-"

\* SHELL_PREDICTOR_PARSER.parse_known_args: '-c' takes the next token as its
\* value unless that token is missing or an option string, and is then set to
\* its const (None); the first positional is the filename; '-h', the help
\* option every ArgumentParser has unless add_help=False, prints the help and
\* raises SystemExit (exit); anything else is left over
RECURSIVE parse_known_args(_, _)
parse_known_args(args, ns) ==
    IF args = <<>> THEN ns
    ELSE IF Head(args) = dash_h THEN [ns EXCEPT !.exit = TRUE]
    ELSE IF Head(args) = dash_c
         THEN IF Len(args) >= 2 /\ ~IsFlag(args[2])
              THEN parse_known_args(Tail(Tail(args)), [ns EXCEPT !.c = args[2]])
              ELSE parse_known_args(Tail(args), [ns EXCEPT !.c = None])
    ELSE IF ~IsFlag(Head(args)) /\ ns.filename = None
         THEN parse_known_args(Tail(args), [ns EXCEPT !.filename = Head(args)])
    ELSE parse_known_args(Tail(args), ns)

\* the namespace of defaults parsing starts from
Namespace == [c |-> None, filename |-> None, exit |-> FALSE]

\* predict_shell does not return: parse_known_args raises SystemExit
predict_shell_exits(args) == parse_known_args(args, Namespace).exit

\* the value predict_shell returns when it returns
predict_shell(args) ==
    LET ns == parse_known_args(args, Namespace)
    IN  IF ns.c = None /\ ns.filename = None THEN FALSE ELSE TRUE

\* calling a registered predictor
Apply(predictor, args) ==
    IF predictor = "predict_shell" THEN predict_shell(args)
    ELSE IF predictor = "predict_false" THEN predict_false(args)
    ELSE predict_true(args)

ShellNames == { <<"s","h">>, <<"z","s","h">>, <<"k","s","h">>, <<"c","s","h">>,
                <<"t","c","s","h">>, bash, <<"f","i","s","h">>,
                <<"x","o","n","s","h">> }
ForegroundNames == { <<"s","s","h">>, <<"s","t","a","r","t","x">>, vi }

default_backgroundable_predictors ==
    [n \in ShellNames \cup ForegroundNames |->
        IF n \in ShellNames THEN "predict_shell" ELSE "predict_false"]

\* collections.defaultdict.__getitem__ with the factory lambda: predict_true
DefaultDictGet(d, k) == IF k \in DOMAIN d THEN d[k] ELSE "predict_true"

\* ... which also stores the default under a missing key
DefaultDictAfterGet(d, k) == IF k \in DOMAIN d THEN d ELSE d @@ (k :> "predict_true")

\* does predict_backgroundable return before it consults the registry
Permissive(m, cmd) ==
    LET name == cached_name(m, cmd[1])
        entry == lazyget(m, name, <<None, None>>)
    IN  entry[1] = None \/ entry[2] = TRUE

\* predict_backgroundable when the predictor is given cmd and not cmd[1:]
predict_backgroundable_argv(m, predictors, cmd) ==
    IF Permissive(m, cmd) THEN TRUE
    ELSE Apply(DefaultDictGet(predictors, cached_name(m, cmd[1])), cmd)

\* CommandsCache.predict_backgroundable
predict_backgroundable(m, predictors, cmd) ==
    IF Permissive(m, cmd) THEN TRUE
    ELSE Apply(DefaultDictGet(predictors, cached_name(m, cmd[1])), Tail(cmd))

----------------------------------------------------------------------------
(* The arguments the operations are called with *)

KeyArgs == {foo, join(dA, FileName(foo))}

LocateArgs == {foo, run, join(dB, FileName(foo))}

ArgTails == {<<>>, <<dash_c, word>>, <<word>>, <<dash_x>>}

CmdNames == {bash, vi, foo, zz}

NoArg == <<>>

Call(op, arg, val, scanned) ==
    [op |-> op, arg |-> arg, val |-> val, scanned |-> scanned]

NoCall == Call("none", NoArg, None, FALSE)

\* the bookkeeping of a step of the environment
Changed(dirs) ==
    /\ ret' = NoCall
    /\ fresh' = "no"
    /\ touched' = touched \cup dirs

\* the fingerprint all_commands computes
Fingerprint == <<path_hash, al_hash, max_mtime>>

\* the bookkeeping of a validating call
Validated(scanned) ==
    /\ fresh' = IF scanned THEN "rebuilt" ELSE "kept"
    /\ touched' = {}
    /\ built' = IF scanned THEN Fingerprint ELSE built

\* all_commands is not running: no position, no local variables
NoFrame ==
    [pc |-> "idle", paths |-> <<>>, pathset |-> {}, cache_valid |-> FALSE,
     allcmds |-> <<>>, todo |-> <<>>]

----------------------------------------------------------------------------
(* Initial state: CommandsCache.__init__ in an arbitrary environment *)

Init ==
    /\ ON_WINDOWS \in BOOLEAN
    /\ PATH \in Paths
    /\ aliases \in SUBSET AliasNames
    /\ files \in [ExistingDirs -> SUBSET (UNION {DirFiles(d) \cup StaticFiles(d) : d \in ExistingDirs})]
    /\ \A d \in ExistingDirs :
          StaticFiles(d) \subseteq files[d] /\ files[d] \subseteq DirFiles(d) \cup StaticFiles(d)
    /\ mtime \in [ExistingDirs -> 1..MaxMtime]
    /\ cmds_cache = <<>>
    /\ path_checksum = {None}
    /\ alias_checksum = {None}
    /\ path_mtime = -1
    /\ backgroundable_predictors = default_backgroundable_predictors
    /\ ret = Call("__init__", NoArg, None, FALSE)
    /\ fresh = "no"
    /\ touched = {}
    /\ frame = NoFrame
    /\ built = <<path_checksum, alias_checksum, path_mtime>>

----------------------------------------------------------------------------
(* The environment *)

\* an executable appears in a directory, whose modification time increases
AddExecutable(d, n) ==
    /\ n \in DirFiles(d) \ files[d]
    /\ files' = [files EXCEPT ![d] = @ \cup {n}]
    /\ \E t \in (mtime[d] + 1)..MaxMtime : mtime' = [mtime EXCEPT ![d] = t]
    /\ Changed({d})
    /\ UNCHANGED <<ON_WINDOWS, PATH, aliases, cache, backgroundable_predictors,
                   frame, built>>

\* an executable disappears from a directory, whose modification time increases
RemoveExecutable(d, n) ==
    /\ n \in files[d] \cap DirFiles(d)
    /\ files' = [files EXCEPT ![d] = @ \ {n}]
    /\ \E t \in (mtime[d] + 1)..MaxMtime : mtime' = [mtime EXCEPT ![d] = t]
    /\ Changed({d})
    /\ UNCHANGED <<ON_WINDOWS, PATH, aliases, cache, backgroundable_predictors,
                   frame, built>>

\* $PATH is assigned
SetPath(p) ==
    /\ p # PATH
    /\ PATH' = p
    /\ Changed({})
    /\ UNCHANGED <<ON_WINDOWS, aliases, files, mtime, cache,
                   backgroundable_predictors, frame, built>>

\* an alias is defined
AddAlias(a) ==
    /\ a \notin aliases
    /\ aliases' = aliases \cup {a}
    /\ Changed({})
    /\ UNCHANGED <<ON_WINDOWS, PATH, files, mtime, cache,
                   backgroundable_predictors, frame, built>>

\* an alias is deleted
RemoveAlias(a) ==
    /\ a \in aliases
    /\ aliases' = aliases \ {a}
    /\ Changed({})
    /\ UNCHANGED <<ON_WINDOWS, PATH, files, mtime, cache,
                   backgroundable_predictors, frame, built>>

----------------------------------------------------------------------------
(* Validating operations *)

\* CommandsCache.__contains__
Contains(key) ==
    \E m \in {all_commands} :
        /\ UNCHANGED <<env, backgroundable_predictors, frame>>
        /\ Validate(m)
        /\ Validated(~cache_valid)
        /\ ret' = Call("__contains__", key, lazyin(m, key), ~cache_valid)

\* IterNames when the file name is taken for alias entries too
RECURSIVE IterNames_all(_)
IterNames_all(m) ==
    IF m = <<>> THEN <<>>
    ELSE <<IF ON_WINDOWS THEN basename(Head(m)[2][1]) ELSE Head(m)[1]>>
         \o IterNames_all(Tail(m))

\* the names CommandsCache.__iter__ yields from the map m
RECURSIVE IterNames(_)
IterNames(m) ==
    IF m = <<>> THEN <<>>
    ELSE LET cmd == Head(m)[1]
             path == Head(m)[2][1]
             is_alias == Head(m)[2][2]
         IN  <<IF ON_WINDOWS /\ ~is_alias THEN basename(path) ELSE cmd>>
             \o IterNames(Tail(m))

\* CommandsCache.__iter__, run to exhaustion
Iter ==
    \E m \in {all_commands} :
        /\ UNCHANGED <<env, backgroundable_predictors, frame>>
        /\ Validate(m)
        /\ Validated(~cache_valid)
        /\ ret' = Call("__iter__", NoArg, IterNames(m), ~cache_valid)

\* CommandsCache.__len__
Length ==
    \E m \in {all_commands} :
        /\ UNCHANGED <<env, backgroundable_predictors, frame>>
        /\ Validate(m)
        /\ Validated(~cache_valid)
        /\ ret' = Call("__len__", NoArg, Len(m), ~cache_valid)

\* CommandsCache.__getitem__
GetItem(key) ==
    \E m \in {all_commands} :
        /\ UNCHANGED <<env, backgroundable_predictors, frame>>
        /\ Validate(m)
        /\ Validated(~cache_valid)
        /\ ret' = Call("__getitem__", key, lazyget(m, key, None), ~cache_valid)

\* CommandsCache.locate_binary
LocateBinary(name) ==
    \E m \in {all_commands} :
        /\ UNCHANGED <<env, backgroundable_predictors, frame>>
        /\ Validate(m)
        /\ Validated(~cache_valid)
        /\ ret' = Call("locate_binary", name, lazy_locate_binary(m, name), ~cache_valid)

----------------------------------------------------------------------------
(* Operations that do not validate *)

IsEmpty ==
    /\ ret' = Call("is_empty", NoArg, is_empty(cmds_cache), FALSE)
    /\ UNCHANGED <<env, cache, backgroundable_predictors, fresh, touched, frame,
                   built>>

LazyIn(key) ==
    /\ ret' = Call("lazyin", key, lazyin(cmds_cache, key), FALSE)
    /\ UNCHANGED <<env, cache, backgroundable_predictors, fresh, touched, frame,
                   built>>

LazyIter ==
    /\ ret' = Call("lazyiter", NoArg, lazyiter(cmds_cache), FALSE)
    /\ UNCHANGED <<env, cache, backgroundable_predictors, fresh, touched, frame,
                   built>>

LazyLen ==
    /\ ret' = Call("lazylen", NoArg, lazylen(cmds_cache), FALSE)
    /\ UNCHANGED <<env, cache, backgroundable_predictors, fresh, touched, frame,
                   built>>

\* LazyGet when the lookup validates first, as __getitem__ does
LazyGet_validating(key) ==
    \E m \in {all_commands} :
        /\ UNCHANGED <<env, backgroundable_predictors, fresh, touched, frame, built>>
        /\ Validate(m)
        /\ ret' = Call("lazyget", key, lazyget(m, key, None), FALSE)

LazyGet(key) ==
    /\ ret' = Call("lazyget", key, lazyget(cmds_cache, key, None), FALSE)
    /\ UNCHANGED <<env, cache, backgroundable_predictors, fresh, touched, frame,
                   built>>

LazyLocateBinary(name) ==
    /\ ret' = Call("lazy_locate_binary", name, lazy_locate_binary(cmds_cache, name), FALSE)
    /\ UNCHANGED <<env, cache, backgroundable_predictors, fresh, touched, frame,
                   built>>

PredictBackgroundable(cmd) ==
    /\ ret' = Call("predict_backgroundable", cmd,
                   predict_backgroundable(cmds_cache, backgroundable_predictors, cmd),
                   FALSE)
    /\ backgroundable_predictors' =
          IF Permissive(cmds_cache, cmd) THEN backgroundable_predictors
          ELSE DefaultDictAfterGet(backgroundable_predictors,
                                   cached_name(cmds_cache, cmd[1]))
    /\ UNCHANGED <<env, cache, fresh, touched, frame, built>>

----------------------------------------------------------------------------

\* the filesystem changes
Filesystem ==
    \/ \E d \in ExistingDirs : \E n \in DirFiles(d) : AddExecutable(d, n)
    \/ \E d \in ExistingDirs : \E n \in DirFiles(d) : RemoveExecutable(d, n)

\* the shell's settings change
Settings ==
    \/ \E p \in Paths : SetPath(p)
    \/ \E a \in AliasNames : AddAlias(a)
    \/ \E a \in AliasNames : RemoveAlias(a)

Environment == Filesystem \/ Settings

Validating ==
    \/ \E key \in KeyArgs : Contains(key)
    \/ Iter
    \/ Length
    \/ \E key \in KeyArgs : GetItem(key)
    \/ \E name \in LocateArgs : LocateBinary(name)

Lazy ==
    \/ \E key \in KeyArgs : LazyIn(key)
    \/ LazyIter
    \/ LazyLen
    \/ \E key \in KeyArgs : LazyGet(key)
    \/ \E name \in LocateArgs : LazyLocateBinary(name)

\* the cache under its validating callers
Next == Environment \/ Validating \/ IsEmpty

Spec == Init /\ [][Next]_vars

\* the cache under its lazy callers
NextLazy == Environment \/ Length \/ Lazy

SpecLazy == Init /\ [][NextLazy]_vars

\* the cache under the caller that asks for a background prediction
NextPredict ==
    \/ Settings
    \/ Length
    \/ \E n \in CmdNames : \E t \in ArgTails : PredictBackgroundable(<<n>> \o t)

\* no directory changes under NextPredict, so one modification time will do
InitPredict == Init /\ mtime = [d \in ExistingDirs |-> 1]

SpecPredict == InitPredict /\ [][NextPredict]_vars

----------------------------------------------------------------------------
(* Freshness *)

ValidatingOps == {"__contains__", "__iter__", "__len__", "__getitem__",
                  "locate_binary"}

\* the map agrees with the content of directory d: every executable of d has
\* an entry, and no entry points to a file that d does not hold
Reflects(m, d) ==
    /\ \A n \in files[d] : DictHas(m, CacheKey(n))
    /\ \A n \in DirFiles(d) \cup StaticFiles(d) :
          (\E i \in 1..Len(m) : m[i][2][1] = join(d, n)) => n \in files[d]

\* C1: once an executable has been added to or removed from a directory of the
\* search path and the directory's modification time has increased, the map
\* stays as it was until a validating call runs, and that validating call
\* leaves a map that reflects the change.
C1_Freshness ==
    [][ /\ (touched' # {} => cmds_cache' = cmds_cache)
        /\ (touched # {} /\ touched' = {} =>
               \A d \in touched \cap pathset : Reflects(cmds_cache', d)) ]_vars

----------------------------------------------------------------------------
(* Precedence *)

\* C2: whenever the search order is [dA, dB] and both directories hold the
\* executable foo, locate_binary("foo") returns the path in dA.  (Stated for
\* a foo that is not an alias; C4 is about the aliased one.)
C2_Precedence ==
    ( /\ ret.op = "locate_binary"
      /\ ret.arg = foo
      /\ PATH = <<dA, dB>>
      /\ FileName(foo) \in files[dA] \cap files[dB]
      /\ aliases = {} )
    => ret.val = join(dA, FileName(foo))

----------------------------------------------------------------------------
(* Aliases *)

\* the search directories that hold an executable named n
Holders(n) == {d \in pathset : n \in files[d]}

\* C4: after a validating call, a name that is both an alias and an executable
\* of a search directory has the entry (path of the executable, TRUE); the
\* alias pass has not replaced it by (None, TRUE).
C4_AliasNonShadowing ==
    fresh # "no" =>
        \A n \in aliases :
            Holders(n) # {} =>
                \E d \in Holders(n) :
                    DictGet(cmds_cache, CacheKey(n), None) = <<join(d, n), TRUE>>

\* C7: after a validating call, an alias that names no executable of any
\* search directory has the entry (None, TRUE), and predict_backgroundable
\* returns TRUE for it whatever the arguments.
C7_PureAlias ==
    \A n \in aliases :
        Holders(n) = {} =>
            /\ fresh # "no" => DictGet(cmds_cache, CacheKey(n), None) = only_alias
            /\ (fresh # "no" /\ ret.op = "predict_backgroundable" /\ Head(ret.arg) = n)
                   => ret.val = TRUE

----------------------------------------------------------------------------
(* Predictions *)

\* n is an executable of a search directory and not an alias
RealCommand(n) == Holders(FileName(n)) # {} /\ FileName(n) \notin aliases /\ n \notin aliases

\* C6: whenever bash and vi are real, non-aliased executables of the search
\* path, predict_backgroundable is FALSE for ["bash"], TRUE for
\* ["bash", "-c", code], FALSE for ["vi", file] and TRUE for an unknown
\* command.  (Stated for the states where the map has just been validated;
\* the claim extends it to every state.)
C6_PredictorDefaults ==
    ( /\ ret.op = "predict_backgroundable"
      /\ fresh # "no"
      /\ RealCommand(bash)
      /\ RealCommand(vi) )
    => /\ ret.arg = <<bash>> => ret.val = FALSE
       /\ ret.arg = <<bash, dash_c, word>> => ret.val = TRUE
       /\ ret.arg = <<vi, word>> => ret.val = FALSE
       /\ ret.arg = <<zz, dash_x>> => ret.val = TRUE

----------------------------------------------------------------------------
(* Idempotence *)

\* C3: once a validating call has completed and the environment has not
\* changed since, a further validating call does not scan (it keeps the map
\* it found), and a repeated call returns what it returned before.
C3_Idempotence ==
    [][ (fresh # "no" /\ ret'.op \in ValidatingOps) =>
            /\ cmds_cache' = cmds_cache
            /\ ret'.scanned = FALSE
            /\ fresh' = "kept"
            /\ (ret.op = ret'.op /\ ret.arg = ret'.arg) => ret'.val = ret.val ]_vars

\* a validating call has found a populated map valid and answered from it
C3_Witness ==
    /\ fresh = "kept"
    /\ ret.op = "__getitem__"
    /\ ret.val # None
    /\ path_mtime = max_mtime

----------------------------------------------------------------------------
(* is_empty *)

\* C8 as claimed: is_empty() is TRUE exactly when no rebuild has completed
\* (path_mtime is -1 until the first validating call, which always rebuilds).
C8_NeverPopulated ==
    ret.op = "is_empty" => (ret.val <=> path_mtime = -1)

\* the environment offers nothing to put in the map
NothingToFind == aliases = {} /\ \A d \in pathset : files[d] = {}

\* C8 as amended: is_empty() is TRUE exactly when the current map has no
\* entry: before the first rebuild, and after a rebuild exactly when it found
\* no executable in the search directories and no alias.
C8_NoEntries ==
    /\ ret.op = "is_empty" => (ret.val <=> Len(cmds_cache) = 0)
    /\ path_mtime = -1 => Len(cmds_cache) = 0
    /\ fresh = "rebuilt" => (Len(cmds_cache) = 0 <=> NothingToFind)
    /\ (ret.op = "is_empty" /\ fresh = "rebuilt") => (ret.val <=> NothingToFind)

\* is_empty() has answered TRUE after a rebuild
C8_Witness ==
    /\ ret.op = "is_empty"
    /\ fresh = "rebuilt"
    /\ ret.val = TRUE

----------------------------------------------------------------------------
(* Validating calls and their lazy counterparts *)

\* C10 as claimed: each of __contains__, __getitem__, __iter__ and __len__
\* returns what lazyin, lazyget, lazyiter and lazylen return on the map the
\* validation leaves.
C10_SameAsLazy ==
    /\ ret.op = "__contains__" => ret.val = lazyin(cmds_cache, ret.arg)
    /\ ret.op = "__getitem__" => ret.val = lazyget(cmds_cache, ret.arg, None)
    /\ ret.op = "__len__" => ret.val = lazylen(cmds_cache)
    /\ ret.op = "__iter__" => ret.val = lazyiter(cmds_cache)

\* C10 as amended: __contains__, __getitem__ and __len__ return what their
\* lazy counterparts return on the validated map; __iter__ yields one name per
\* key of lazyiter, in the same order: the key itself, except that where keys
\* are case-normalized an entry without alias yields the base name of its
\* path, which normalizes to the key.
C10_SameAsLazyButIter ==
    /\ ret.op = "__contains__" => ret.val = lazyin(cmds_cache, ret.arg)
    /\ ret.op = "__getitem__" => ret.val = lazyget(cmds_cache, ret.arg, None)
    /\ ret.op = "__len__" => ret.val = lazylen(cmds_cache)
    /\ ret.op = "__iter__" =>
          /\ Len(ret.val) = Len(lazyiter(cmds_cache))
          /\ \A i \in 1..Len(ret.val) :
                LET key == lazyiter(cmds_cache)[i]
                    entry == DictGet(cmds_cache, key, None)
                IN  /\ (~ON_WINDOWS \/ entry[2]) => ret.val[i] = key
                    /\ (ON_WINDOWS /\ ~entry[2]) =>
                          /\ join(dirname(entry[1]), ret.val[i]) = entry[1]
                          /\ CacheKey(ret.val[i]) = key

\* __iter__ has yielded a file name that is not the key
C10_Witness ==
    /\ ret.op = "__iter__"
    /\ \E i \in 1..Len(ret.val) : ret.val[i] # lazyiter(cmds_cache)[i]
    /\ \E i \in 1..Len(ret.val) : ret.val[i] = lazyiter(cmds_cache)[i]

----------------------------------------------------------------------------
(* predict_backgroundable *)

\* the key under which the map holds the command name n, None when it does not:
\* the base name where keys keep their case, else the first of the upper-cased
\* base name and its PATHEXT variants that is a key
Resolved(n) ==
    LET base == basename(n)
        variants == << upper(base) >> \o [i \in 1..Len(PATHEXT) |-> upper(base) \o PATHEXT[i]]
    IN  IF ~ON_WINDOWS
        THEN IF DictHas(cmds_cache, base) THEN base ELSE None
        ELSE IF \E i \in 1..Len(variants) : DictHas(cmds_cache, variants[i])
             THEN variants[CHOOSE i \in 1..Len(variants) :
                              /\ DictHas(cmds_cache, variants[i])
                              /\ \A j \in 1..(i - 1) : ~DictHas(cmds_cache, variants[j])]
             ELSE None

\* the predictor the cache was constructed with for the name n
Registered(n) ==
    IF n \in ShellNames THEN "predict_shell"
    ELSE IF n \in ForegroundNames THEN "predict_false"
    ELSE "predict_true"

\* C5: predict_backgroundable(argv) is TRUE when argv[0] resolves to no entry
\* of the current map or to an entry with an alias or without a path;
\* otherwise it is the value of the predictor registered for the resolved
\* name, the always-true one when none is registered, applied to argv[1:].
C5_PredictBackgroundable ==
    ret.op = "predict_backgroundable" =>
        LET name == Resolved(Head(ret.arg))
            entry == DictGet(cmds_cache, name, <<None, None>>)
        IN  /\ name = None => ret.val = TRUE
            /\ (name # None /\ (entry[2] = TRUE \/ entry[1] = None)) => ret.val = TRUE
            /\ (name # None /\ entry[2] = FALSE /\ entry[1] # None) =>
                  ret.val = Apply(Registered(name), Tail(ret.arg))

\* a registered predictor has refused a resolved command
C5_Witness ==
    /\ ret.op = "predict_backgroundable"
    /\ Resolved(Head(ret.arg)) # None
    /\ Registered(Resolved(Head(ret.arg))) = "predict_shell"
    /\ ret.val = FALSE

----------------------------------------------------------------------------
(* lazy_locate_binary *)

\* C9: lazy_locate_binary(name) probes the variants of name in the order of
\* get_possible_names: where suffixes are resolved it returns the absolute
\* path of the first variant that is a file seen from the current directory;
\* otherwise the stored path of the first variant that is a key of the map;
\* otherwise name itself when name is an existing file given with a path;
\* otherwise None.
C9_LazyLocate ==
    ret.op = "lazy_locate_binary" =>
        LET name == ret.arg
            v == get_possible_names(name)
            Local(i) == ON_WINDOWS /\ isfile(v[i])
            Key(i) == DictHas(cmds_cache, v[i])
            NoLocal == \A i \in 1..Len(v) : ~Local(i)
            NoKey == \A i \in 1..Len(v) : ~Key(i)
        IN  /\ \A i \in 1..Len(v) :
                  (Local(i) /\ \A j \in 1..(i - 1) : ~Local(j)) =>
                      ret.val = abspath(v[i])
            /\ \A i \in 1..Len(v) :
                  (NoLocal /\ Key(i) /\ \A j \in 1..(i - 1) : ~Key(j)) =>
                      ret.val = DictGet(cmds_cache, v[i], None)[1]
            /\ (NoLocal /\ NoKey /\ isfile(name) /\ name # basename(name)) =>
                  ret.val = name
            /\ (NoLocal /\ NoKey /\ ~(isfile(name) /\ name # basename(name))) =>
                  ret.val = None

\* the second variant of a name, the first that is a key, has been located
C9_Witness ==
    /\ ret.op = "lazy_locate_binary"
    /\ ON_WINDOWS
    /\ ret.arg = foo
    /\ \E d \in ExistingDirs : ret.val = join(d, FileName(foo))

----------------------------------------------------------------------------
(* The lazy operations leave the cache alone *)

\* the commands predict_backgroundable is asked about next to the lazy readers
FrameCmds == {<<foo>>, <<bash, dash_c, word>>}

\* the cache under its lazy callers and the background prediction
NextFrame ==
    \/ Settings
    \/ \E n \in DirFiles(dA) : AddExecutable(dA, n)
    \/ \E n \in DirFiles(dA) : RemoveExecutable(dA, n)
    \/ Length
    \/ Lazy
    \/ \E cmd \in FrameCmds : PredictBackgroundable(cmd)

SpecFrame == InitPredict /\ [][NextFrame]_vars

LazyOps == {"lazyin", "lazyget", "lazyiter", "lazylen", "lazy_locate_binary",
            "predict_backgroundable"}

\* C11: a step in which lazyin, lazyget, lazyiter, lazylen,
\* lazy_locate_binary or predict_backgroundable returns leaves the map and the
\* three stored fingerprint fields as they were, whether or not the
\* environment still matches the fingerprint.
C11_LazyFrame ==
    [][ ret'.op \in LazyOps =>
            /\ cmds_cache' = cmds_cache
            /\ path_checksum' = path_checksum
            /\ alias_checksum' = alias_checksum
            /\ path_mtime' = path_mtime ]_vars

\* a lazy lookup has answered from a populated map that a validating call
\* would now rebuild
C11_Witness ==
    /\ ret.op = "lazyget"
    /\ ret.val # None
    /\ ~cache_valid
    /\ path_checksum # path_hash

----------------------------------------------------------------------------
(* get_possible_names *)

fOo == <<"f","O","o">>

\* the names get_possible_names is called with
NameArgs == {foo, fOo, foo \o exe, join(dA, run)}

\* CommandsCache.get_possible_names, a static method
GetPossibleNames(name) ==
    /\ ret' = Call("get_possible_names", name, get_possible_names(name), FALSE)
    /\ UNCHANGED <<env, cache, backgroundable_predictors, fresh, touched, frame,
                   built>>

NextNames == \E name \in NameArgs : GetPossibleNames(name)

SpecNames == Init /\ [][NextNames]_vars

\* C12: where suffixes are resolved, get_possible_names(name) is the list of
\* the upper-cased name followed by the upper-cased name with each suffix of
\* PATHEXT appended, in the order of PATHEXT, so 1 + len(PATHEXT) names;
\* elsewhere it is the list of name alone, as given.
C12_GetPossibleNames ==
    ret.op = "get_possible_names" =>
        LET name == ret.arg
            v == ret.val
        IN  IF ON_WINDOWS
            THEN /\ Len(v) = 1 + Len(PATHEXT)
                 /\ Len(v[1]) = Len(name)
                 /\ \A i \in 1..Len(name) :
                       /\ v[1][i] \notin Elems(Lower)
                       /\ v[1][i] # name[i] =>
                             \E j \in DOMAIN Lower :
                                 name[i] = Lower[j] /\ v[1][i] = Capital[j]
                 /\ \A k \in 1..Len(PATHEXT) : v[k + 1] = v[1] \o PATHEXT[k]
            ELSE v = <<name>>

\* a name of mixed case has got its variants
C12_Witness ==
    /\ ret.op = "get_possible_names"
    /\ ON_WINDOWS
    /\ ret.arg = fOo
    /\ ret.val = << <<"F","O","O">>, <<"F","O","O",".","E","X","E">>,
                    <<"F","O","O",".","B","A","T">> >>

----------------------------------------------------------------------------
(* When all_commands rebuilds *)

\* C13: a validating call scans (rebuilds the map) exactly when the set of
\* existing search directories differs from the stored one, or the alias set
\* differs from the stored one, or the largest modification time of those
\* directories exceeds the stored one; otherwise it leaves the map as it is;
\* either way the three stored fields are afterwards the values just computed.
\* (A validating call leaves the environment as it is, so the unprimed
\* expressions are the values the call computes.)
C13_RebuildIff ==
    [][ ret'.op \in ValidatingOps =>
            LET differs == \/ hash(pathset) # path_checksum
                           \/ hash(aliases) # alias_checksum
                           \/ max_mtime > path_mtime
            IN  /\ ret'.scanned <=> differs
                /\ fresh' = (IF differs THEN "rebuilt" ELSE "kept")
                /\ ~differs => cmds_cache' = cmds_cache
                /\ differs => cmds_cache' = Rebuild
                /\ path_checksum' = hash(pathset)
                /\ alias_checksum' = hash(aliases)
                /\ path_mtime' = max_mtime ]_vars

\* a validating call has stored a largest modification time that lies below
\* the modification time of a directory it no longer searches
C13_Witness ==
    /\ ret.op \in ValidatingOps
    /\ ret.scanned
    /\ pathset # {}
    /\ path_mtime = max_mtime
    /\ \E d \in ExistingDirs \ pathset : mtime[d] > path_mtime

----------------------------------------------------------------------------
(* The map a rebuild leaves *)

\* the executables of the search directories
Found == UNION {files[d] : d \in pathset}

\* the first directory of $PATH that holds an executable with the key k
FirstHolder(k) ==
    LET holds(i) == isdir(PATH[i]) /\ \E n \in files[PATH[i]] : CacheKey(n) = k
    IN  PATH[CHOOSE i \in DOMAIN PATH : holds(i) /\ \A j \in 1..(i - 1) : ~holds(j)]

\* C14: after a rebuild the keys of the map are the keys of the executables
\* found in the search directories and of the aliases, each once; the key of
\* an executable has the path of the executable in the first search
\* directory that holds it, and the flag that tells whether its name is an
\* alias; the key of an alias that names no executable has (None, TRUE).
C14_ReferenceMap ==
    fresh = "rebuilt" =>
        /\ Elems(DictKeys(cmds_cache)) = {CacheKey(n) : n \in Found \cup aliases}
        /\ Len(cmds_cache) = Cardinality({CacheKey(n) : n \in Found \cup aliases})
        /\ \A k \in {CacheKey(n) : n \in Found} :
               \E n \in files[FirstHolder(k)] :
                   /\ CacheKey(n) = k
                   /\ DictGet(cmds_cache, k, None) =
                          <<join(FirstHolder(k), n), n \in aliases>>
        /\ \A a \in aliases :
               CacheKey(a) \notin {CacheKey(n) : n \in Found} =>
                   DictGet(cmds_cache, CacheKey(a), None) = only_alias

----------------------------------------------------------------------------
(* The entries of the map *)

\* C15: in every state every entry (path, has_alias) of the map has a path
\* or has the alias flag: none is (None, FALSE).
C15_EntryInvariant ==
    \A i \in 1..Len(cmds_cache) :
        LET path == cmds_cache[i][2][1]
            has_alias == cmds_cache[i][2][2]
        IN  /\ has_alias \in BOOLEAN
            /\ path = None => has_alias = TRUE

\* the map holds an entry without path next to an entry without alias
C15_Witness ==
    /\ \E i \in 1..Len(cmds_cache) : cmds_cache[i][2] = <<None, TRUE>>
    /\ \E i \in 1..Len(cmds_cache) :
          cmds_cache[i][2][1] # None /\ cmds_cache[i][2][2] = FALSE

----------------------------------------------------------------------------
(* all_commands step by step                                               *)
(*                                                                         *)
(* The property reads the environment and writes the cache's fields one    *)
(* after the other.  Other processes change the filesystem at any time,    *)
(* and a reader on another thread (the completer) calls the lazy           *)
(* operations at any time; $PATH and the aliases are set by the thread     *)
(* that calls all_commands, so between its calls.  The caller is __len__.  *)

OSError == <<"O","S","E","r","r","o","r">>

\* the call ends with the exception exc
Raise(exc) == Call("raise", NoArg, exc, FALSE)

\* lines 74-79: paths, pathset, path_hash, first cache_valid, _path_checksum
ReadPath ==
    /\ frame.pc = "idle"
    /\ frame' = [NoFrame EXCEPT !.pc = "aliases", !.paths = PATH,
                                !.pathset = pathset,
                                !.cache_valid = (path_hash = path_checksum)]
    /\ path_checksum' = path_hash
    /\ ret' = NoCall
    /\ fresh' = "no"
    /\ UNCHANGED <<env, cmds_cache, alias_checksum, path_mtime,
                   backgroundable_predictors, touched, built>>

\* lines 81-84: alss, al_hash, second cache_valid, _alias_checksum
ReadAliases ==
    /\ frame.pc = "aliases"
    /\ frame' = [frame EXCEPT !.pc = "stat",
                              !.cache_valid = (@ /\ al_hash = alias_checksum)]
    /\ alias_checksum' = al_hash
    /\ UNCHANGED <<env, cmds_cache, path_checksum, path_mtime,
                   backgroundable_predictors, ret, fresh, touched, built>>

\* the largest st_mtime of the directories S, 0 for none
stat_max(S) ==
    IF S = {} THEN 0
    ELSE CHOOSE m \in {mtime[p] : p \in S} : \A p \in S : mtime[p] <= m

\* lines 86-94: os.stat of each directory of pathset, which raises for a
\* directory that is no longer there; last cache_valid, _path_mtime, and the
\* return of the map found valid
StatDirs ==
    /\ frame.pc = "stat"
    /\ IF \E p \in frame.pathset : ~isdir(p)
       THEN /\ frame' = NoFrame
            /\ ret' = Raise(OSError)
            /\ UNCHANGED <<path_mtime, fresh, touched>>
       ELSE /\ path_mtime' = stat_max(frame.pathset)
            /\ IF frame.cache_valid /\ stat_max(frame.pathset) <= path_mtime
               THEN /\ frame' = NoFrame
                    /\ ret' = Call("__len__", NoArg, Len(cmds_cache), FALSE)
                    /\ fresh' = "kept"
                    /\ touched' = {}
               ELSE /\ frame' = [frame EXCEPT !.pc = "scan", !.allcmds = <<>>,
                                              !.todo = Reverse(frame.paths)]
                    /\ UNCHANGED <<ret, fresh, touched>>
    /\ UNCHANGED <<env, cmds_cache, path_checksum, alias_checksum,
                   backgroundable_predictors, built>>

\* ScanNext when the map is assigned after each directory
ScanNext_publishing ==
    /\ frame.pc = "scan"
    /\ frame.todo # <<>>
    /\ \E m \in {ScanDir(frame.allcmds, Head(frame.todo),
                          executables_in(Head(frame.todo)))} :
          /\ frame' = [frame EXCEPT !.allcmds = m, !.todo = Tail(frame.todo)]
          /\ cmds_cache' = m
    /\ UNCHANGED <<env, path_checksum, alias_checksum, path_mtime,
                   backgroundable_predictors, ret, fresh, touched, built>>

\* lines 96-101: one round of the loop over reversed(paths), into the local
\* allcmds
ScanNext ==
    /\ frame.pc = "scan"
    /\ frame.todo # <<>>
    /\ \E m \in {ScanDir(frame.allcmds, Head(frame.todo),
                          executables_in(Head(frame.todo)))} :
          frame' = [frame EXCEPT !.allcmds = m, !.todo = Tail(frame.todo)]
    /\ UNCHANGED <<env, cache, backgroundable_predictors, ret, fresh, touched,
                   built>>

\* lines 102-108: the alias pass into the local allcmds, the assignment of
\* _cmds_cache, the return
Publish ==
    /\ frame.pc = "scan"
    /\ frame.todo = <<>>
    /\ \E m \in {AddAliases(frame.allcmds, Listing(aliases))} :
          /\ cmds_cache' = m
          /\ ret' = Call("__len__", NoArg, Len(m), TRUE)
    /\ frame' = NoFrame
    /\ fresh' = "rebuilt"
    /\ touched' = {}
    /\ built' = <<path_checksum, alias_checksum, path_mtime>>
    /\ UNCHANGED <<env, path_checksum, alias_checksum, path_mtime,
                   backgroundable_predictors>>

\* a directory vanishes (a volume is unmounted); mtime keeps the modification
\* time the directory has when it is there
RemoveDir(d) ==
    /\ isdir(d)
    /\ files' = [x \in DOMAIN files \ {d} |-> files[x]]
    /\ Changed({})
    /\ UNCHANGED <<ON_WINDOWS, PATH, aliases, mtime, cache,
                   backgroundable_predictors, frame, built>>

\* a directory that had vanished is there again (a volume is mounted again),
\* with the executables it holds throughout and the modification time it had
RestoreDir(d) ==
    /\ ~isdir(d)
    /\ files' = [x \in DOMAIN files \cup {d} |->
                    IF x = d THEN StaticFiles(d) ELSE files[x]]
    /\ Changed({})
    /\ UNCHANGED <<ON_WINDOWS, PATH, aliases, mtime, cache,
                   backgroundable_predictors, frame, built>>

\* the settings change between two calls of all_commands
SettingsIdle == frame.pc = "idle" /\ Settings

NextSteps ==
    \/ SettingsIdle
    \/ \E d \in ExistingDirs : RemoveDir(d)
    \/ \E d \in ExistingDirs : RestoreDir(d)
    \/ ReadPath
    \/ ReadAliases
    \/ StatDirs
    \/ ScanNext
    \/ Publish
    \/ LazyLen
    \/ LazyIter

SpecSteps == InitPredict /\ [][NextSteps]_vars

\* C16: no call of all_commands ends with an exception because a search
\* directory vanished after the existence check: the directory is skipped
\* and the call runs to its end.
C16_VanishedSkipped == ret.op # "raise"

----------------------------------------------------------------------------
(* Publication *)

\* C17: in no state does the cache hold a fingerprint other than the one
\* its map was built under: the two checksums are those of the build, and the
\* stored modification time is not above the one of the build.  (Stated for
\* the states in which a map has been built; the claim includes the map of
\* __init__.)
C17_PublishedTogether ==
    built[3] # -1 =>
        /\ path_checksum = built[1]
        /\ alias_checksum = built[2]
        /\ path_mtime <= built[3]

\* C18: the map changes only in the step that assigns the local allcmds
\* after the loop over the directories has ended and the aliases have been
\* added, so that a lazy reader, whenever it runs, reads the map as the
\* previous rebuild or as this rebuild completed it.
C18_WholeMaps ==
    [][ /\ cmds_cache' # cmds_cache =>
               /\ frame.pc = "scan"
               /\ frame.todo = <<>>
               /\ frame'.pc = "idle"
               /\ \A a \in aliases : DictHas(cmds_cache', CacheKey(a))
               /\ \A i \in 1..Len(frame.allcmds) :
                      DictHas(cmds_cache', frame.allcmds[i][1])
        /\ ret'.op = "lazylen" => ret'.val = Len(cmds_cache')
        /\ ret'.op = "lazyiter" => ret'.val = DictKeys(cmds_cache') ]_vars

\* a lazy reader has read the previous map while the rebuild had filled its
\* local map in part
C18_Witness ==
    /\ ret.op = "lazylen"
    /\ frame.pc = "scan"
    /\ frame.todo # <<>>
    /\ frame.allcmds # <<>>
    /\ ret.val = Len(cmds_cache)
    /\ ret.val > 0
    /\ ret.val # Len(frame.allcmds)

----------------------------------------------------------------------------
(* The predictor registry *)

\* C19: in every state the registry is the one __init__ made: no call has
\* added, removed or changed an entry.
C19_RegistryImmutable ==
    backgroundable_predictors = default_backgroundable_predictors

----------------------------------------------------------------------------
(* predict_shell *)

MaxArgs == 3        \* the longest argument list predict_shell is called with

SystemExit == <<"S","y","s","t","e","m","E","x","i","t">>

\* the argument lists made of the flag -c, a word, an undeclared flag and -h
ShellArgs == UNION {[1..n -> {dash_c, word, dash_x, dash_h}] : n \in 0..MaxArgs}

\* predict_shell, called on its own
PredictShell(args) ==
    /\ ret' = IF predict_shell_exits(args)
              THEN [Raise(SystemExit) EXCEPT !.arg = args]
              ELSE Call("predict_shell", args, predict_shell(args), FALSE)
    /\ UNCHANGED <<env, cache, backgroundable_predictors, fresh, touched, frame,
                   built>>

NextShell == \E args \in ShellArgs : PredictShell(args)

SpecShell == InitPredict /\ [][NextShell]_vars

\* a word of args that is not the value of a -c before it
ScriptPresent(args) ==
    \E i \in 1..Len(args) : ~IsFlag(args[i]) /\ (i = 1 \/ args[i - 1] # dash_c)

\* C20: predict_shell returns for every argument list, TRUE when the list
\* has the flag -c or a script file, FALSE when it has neither; flags other
\* than -c make no difference.
C20_PredictShell ==
    /\ ret.op # "raise"
    /\ ret.op = "predict_shell" =>
          (ret.val <=> (dash_c \in Elems(ret.arg) \/ ScriptPresent(ret.arg)))

====
